---- MODULE Spec2Model ----
(***************************************************************************)
(* Verification model of two translation units:                            *)
(*   src/src/video_core/debug_utils/debug_utils.cpp                        *)
(*     - GeometryDumper::AddVertex;                                        *)
(*     - the Pica register-write tracer (StartPicaTracing, OnPicaRegWrite, *)
(*       FinishPicaTracing) with its mutex and its unlocked flag reads;    *)
(*     - the tiled texel addressing of DumpTexture;                        *)
(*   src/src/video_core/renderer_vulkan/vk_texture_cache.h                 *)
(*     - CachedSurfaceView::MarkAsModified, EncodeSwizzle and GetHandle;   *)
(*     - CachedSurface::FullTransition, CachedSurface::Transition and      *)
(*       CachedSurfaceView::Transition.                                    *)
(*                                                                         *)
(* Each component has its own specification; a specification leaves the    *)
(* variables of the other components at their initial values.              *)
(***************************************************************************)
EXTENDS Integers, Sequences, FiniteSets, TLC

(***************************************************************************)
(* Bounds of the model.                                                    *)
(***************************************************************************)
\* threads that may call the tracer concurrently (specification Spec)
NThreads == 2
\* tracer calls made in one behaviour of Spec
MaxCalls == 4
\* tracer calls made in one behaviour of the single-threaded SpecSeq
MaxSeqCalls == 6
\* the register writes a call may make: MaxRegWrite distinct (id, value) pairs
MaxRegWrite == 2

NULL == 0

VARIABLES
    \* ---- tracer, debug_utils.cpp:271-273
    pica_trace,         \* unique_ptr<PicaTrace>: NULL or the index of a buffer in heap
    pica_trace_mutex,   \* std::mutex: NULL when free, else the owning thread
    is_pica_tracing,    \* the flag, read and written without the lock
    heap,               \* every PicaTrace ever allocated: heap[b] is its `writes` vector
    freed,              \* buffers deleted by the unique_ptr assignment of line 283
    pc,                 \* per thread: the statement it executes next
    frame,              \* per thread: arguments and locals of the running call
    crashed,            \* the process died on a null dereference at line 305
    threads,            \* the threads that exist in this run
    \* ---- history of the run (not program state)
    hist,               \* the calls made, in the order they began
    rets,               \* the results FinishPicaTracing returned, in return order
    \* ---- DumpTexture, debug_utils.cpp:325-447
    dump_pc,            \* "off", or where DumpTexture is: "loop", "done"
    width,              \* texture_config.width
    height,             \* texture_config.height
    dump_x,             \* x of the loop of line 389
    dump_y,             \* y of the loop of line 388
    texel_index_within_tile,    \* the local of line 407, as the last iteration left it
    buf,                \* buf[i]: the offset into `data` of the byte copied to buf[i]
    \* ---- CachedSurface / CachedSurfaceView, vk_texture_cache.h
    modification_tick,  \* per Surface: the tick SurfaceBase records
    marks,              \* history: the MarkAsModified calls made, <<view, tick>>
    view_cache,         \* line 214, of one View: the set of <<key, sub-object>>
    last_image_view,    \* line 211
    last_swizzle,       \* line 212
    handle_call,        \* history: the last GetHandle call, its overload and sources
    params,             \* line 199, of one Surface: its SurfaceParams
    view_range,         \* lines 205-208, of one View of it: its subresource range
    image_barriers,     \* the calls VKImage::Transition received, in order
    subresource_state,  \* per layer and level of the image: <<stage, access, layout>>
    transition_calls,   \* history: the Transition / FullTransition calls made
    \* ---- GeometryDumper, debug_utils.cpp:25-42
    vertices,           \* std::vector<Vertex>
    faces,              \* std::vector<Face>
    exited,             \* exit(0) of line 39 was called
    topologies          \* history: the topology of each AddVertex call

tracerVars == <<pica_trace, pica_trace_mutex, is_pica_tracing, heap, freed, pc,
                frame, crashed, threads, hist, rets>>

dumpVars == <<dump_pc, width, height, dump_x, dump_y, texel_index_within_tile, buf>>

tickVars == <<modification_tick, marks>>

swizzleVars == <<view_cache, last_image_view, last_swizzle, handle_call>>

transVars == <<params, view_range, image_barriers, subresource_state, transition_calls>>

geoVars == <<vertices, faces, exited, topologies>>

vars == <<tracerVars, dumpVars, tickVars, swizzleVars, transVars, geoVars>>

Threads == 1..NThreads
\* the (id, value) arguments OnPicaRegWrite is called with: ids 1, 2, ... and a
\* value that differs from every id in use
RegWrites == {<<k, MaxRegWrite + k>> : k \in 1..MaxRegWrite}

\* the variables the tracer leaves alone
notTracerVars == <<dumpVars, tickVars, swizzleVars, transVars, geoVars>>

NoFrame == [call |-> 0, id |-> 0, value |-> 0, ret |-> NULL]

(***************************************************************************)
(* Tracer: initial state (static initialisation, lines 271-273).           *)
(***************************************************************************)
TracerInit(T) ==
    /\ pica_trace = NULL
    /\ pica_trace_mutex = NULL
    /\ is_pica_tracing = FALSE
    /\ heap = <<>>
    /\ freed = {}
    /\ pc = [t \in Threads |-> "idle"]
    /\ frame = [t \in Threads |-> NoFrame]
    /\ crashed = FALSE
    /\ threads = T
    /\ hist = <<>>
    /\ rets = <<>>

CallBound == IF Cardinality(threads) = 1 THEN MaxSeqCalls ELSE MaxCalls

\* a thread may begin a new call
CanCall(t) ==
    /\ t \in threads
    /\ ~crashed
    /\ pc[t] = "idle"
    /\ Len(hist) < CallBound

\* a thread is inside a call at statement `at`
Running(t, at) ==
    /\ t \in threads
    /\ ~crashed
    /\ pc[t] = at

\* the call event recorded when a call begins; `active` is what the unlocked
\* flag read at its first line returned
Event(op, id, value) ==
    [op |-> op, id |-> id, value |-> value, active |-> is_pica_tracing]

Goto(t, at) == pc' = [pc EXCEPT ![t] = at]

\* the call returns: its arguments and locals are gone
Return(t) ==
    /\ pc' = [pc EXCEPT ![t] = "idle"]
    /\ frame' = [frame EXCEPT ![t] = NoFrame]

\* the frame of a call that begins now
NewFrame(id, value) == [call |-> Len(hist) + 1, id |-> id, value |-> value, ret |-> NULL]

(***************************************************************************)
(* StartPicaTracing, lines 275-287.                                        *)
(***************************************************************************)
\* 277-280 with the check left out (mutant)
StartPicaTracing_NoCheck(t) ==
    /\ CanCall(t)
    /\ UNCHANGED notTracerVars
    /\ hist' = Append(hist, Event("start", 0, 0))
    /\ frame' = [frame EXCEPT ![t] = NewFrame(0, 0)]
    /\ Goto(t, "s_lock")
    /\ UNCHANGED <<pica_trace, pica_trace_mutex, is_pica_tracing, heap, freed,
                   crashed, threads, rets>>

\* 277-280: unlocked flag read; logs and returns when tracing already runs
StartPicaTracing(t) ==
    /\ CanCall(t)
    /\ UNCHANGED notTracerVars
    /\ hist' = Append(hist, Event("start", 0, 0))
    /\ IF is_pica_tracing
       THEN Return(t)
       ELSE /\ frame' = [frame EXCEPT ![t] = NewFrame(0, 0)]
            /\ Goto(t, "s_lock")
    /\ UNCHANGED <<pica_trace, pica_trace_mutex, is_pica_tracing, heap, freed,
                   crashed, threads, rets>>

\* 282: pica_trace_mutex.lock()
Start_Lock(t) ==
    /\ Running(t, "s_lock")
    /\ UNCHANGED notTracerVars
    /\ pica_trace_mutex = NULL
    /\ pica_trace_mutex' = t
    /\ Goto(t, "s_new")
    /\ UNCHANGED <<pica_trace, is_pica_tracing, heap, freed, frame, crashed,
                   threads, hist, rets>>

\* 283: pica_trace = unique_ptr<PicaTrace>(new PicaTrace); the assignment
\* deletes the buffer pica_trace owned before, if any
Start_New(t) ==
    /\ Running(t, "s_new")
    /\ UNCHANGED notTracerVars
    /\ heap' = Append(heap, <<>>)
    /\ pica_trace' = Len(heap) + 1
    /\ freed' = IF pica_trace = NULL THEN freed ELSE freed \cup {pica_trace}
    /\ Goto(t, "s_set")
    /\ UNCHANGED <<pica_trace_mutex, is_pica_tracing, frame, crashed, threads,
                   hist, rets>>

\* 285: is_pica_tracing = true
Start_Set(t) ==
    /\ Running(t, "s_set")
    /\ UNCHANGED notTracerVars
    /\ is_pica_tracing' = TRUE
    /\ Goto(t, "s_unlock")
    /\ UNCHANGED <<pica_trace, pica_trace_mutex, heap, freed, frame, crashed,
                   threads, hist, rets>>

\* 286: pica_trace_mutex.unlock(), and the return
Start_Unlock(t) ==
    /\ Running(t, "s_unlock")
    /\ UNCHANGED notTracerVars
    /\ pica_trace_mutex' = NULL
    /\ Return(t)
    /\ UNCHANGED <<pica_trace, is_pica_tracing, heap, freed, crashed,
                   threads, hist, rets>>

(***************************************************************************)
(* OnPicaRegWrite, lines 294-306.                                          *)
(***************************************************************************)
\* 297-298 with the first check left out (mutant)
OnPicaRegWrite_NoFastPath(t, id, value) ==
    /\ CanCall(t)
    /\ UNCHANGED notTracerVars
    /\ hist' = Append(hist, Event("write", id, value))
    /\ frame' = [frame EXCEPT ![t] = NewFrame(id, value)]
    /\ Goto(t, "o_lock")
    /\ UNCHANGED <<pica_trace, pica_trace_mutex, is_pica_tracing, heap, freed,
                   crashed, threads, rets>>

\* 297-298: unlocked flag read; returns when tracing is not running
OnPicaRegWrite(t, id, value) ==
    /\ CanCall(t)
    /\ UNCHANGED notTracerVars
    /\ hist' = Append(hist, Event("write", id, value))
    /\ IF ~is_pica_tracing
       THEN Return(t)
       ELSE /\ frame' = [frame EXCEPT ![t] = NewFrame(id, value)]
            /\ Goto(t, "o_lock")
    /\ UNCHANGED <<pica_trace, pica_trace_mutex, is_pica_tracing, heap, freed,
                   crashed, threads, rets>>

\* 300: std::unique_lock<std::mutex> lock(pica_trace_mutex)
Reg_Lock(t) ==
    /\ Running(t, "o_lock")
    /\ UNCHANGED notTracerVars
    /\ pica_trace_mutex = NULL
    /\ pica_trace_mutex' = t
    /\ Goto(t, "o_check")
    /\ UNCHANGED <<pica_trace, is_pica_tracing, heap, freed, frame, crashed,
                   threads, hist, rets>>

\* 302-303: the flag read again, under the lock
Reg_Recheck(t) ==
    /\ Running(t, "o_check")
    /\ UNCHANGED notTracerVars
    /\ Goto(t, IF ~is_pica_tracing THEN "o_unlock" ELSE "o_push")
    /\ UNCHANGED <<pica_trace, pica_trace_mutex, is_pica_tracing, heap, freed,
                   frame, crashed, threads, hist, rets>>

\* vector::push_back putting the element first (mutant)
PushBack_Front(writes, w) == <<w>> \o writes

\* std::vector::push_back of line 305
PushBack(writes, w) == Append(writes, w)

\* 305 through a stale raw pointer to the buffer allocated last (mutant)
Reg_Push_Stale(t) ==
    /\ Running(t, "o_push")
    /\ UNCHANGED notTracerVars
    /\ heap' = [heap EXCEPT ![Len(heap)] =
                    PushBack(@, [id |-> frame[t].id, value |-> frame[t].value,
                                 call |-> frame[t].call])]
    /\ Goto(t, "o_unlock")
    /\ UNCHANGED <<pica_trace, pica_trace_mutex, is_pica_tracing, freed, frame,
                   crashed, threads, hist, rets>>

\* 305: pica_trace->writes.push_back({id, value}).  Dereferencing an empty
\* unique_ptr is undefined; the access is to an address in page zero, which
\* the builds of this program answer with a segmentation fault.
Reg_Push(t) ==
    /\ Running(t, "o_push")
    /\ UNCHANGED notTracerVars
    /\ IF pica_trace = NULL
       THEN /\ crashed' = TRUE
            /\ UNCHANGED <<heap, pc>>
       ELSE /\ heap' = [heap EXCEPT ![pica_trace] =
                           PushBack(@, [id |-> frame[t].id, value |-> frame[t].value,
                                        call |-> frame[t].call])]
            /\ Goto(t, "o_unlock")
            /\ UNCHANGED crashed
    /\ UNCHANGED <<pica_trace, pica_trace_mutex, is_pica_tracing, freed, frame,
                   threads, hist, rets>>

\* 303 / 306: the unique_lock's destructor releases the mutex on return
Reg_Unlock(t) ==
    /\ Running(t, "o_unlock")
    /\ UNCHANGED notTracerVars
    /\ pica_trace_mutex' = NULL
    /\ Return(t)
    /\ UNCHANGED <<pica_trace, is_pica_tracing, heap, freed, crashed,
                   threads, hist, rets>>

(***************************************************************************)
(* FinishPicaTracing, lines 308-323.                                       *)
(***************************************************************************)
\* the result a FinishPicaTracing call hands to its caller
Returned(call, trace) == [call |-> call, buf |-> trace]

\* 310-313: unlocked flag read; logs and returns {} when tracing is not running
FinishPicaTracing(t) ==
    /\ CanCall(t)
    /\ UNCHANGED notTracerVars
    /\ hist' = Append(hist, Event("finish", 0, 0))
    /\ IF ~is_pica_tracing
       THEN /\ rets' = Append(rets, Returned(Len(hist) + 1, NULL))
            /\ Return(t)
       ELSE /\ frame' = [frame EXCEPT ![t] = NewFrame(0, 0)]
            /\ Goto(t, "f_clear")
            /\ UNCHANGED rets
    /\ UNCHANGED <<pica_trace, pica_trace_mutex, is_pica_tracing, heap, freed,
                   crashed, threads>>

\* 316: is_pica_tracing = false, without the lock
Fin_Clear(t) ==
    /\ Running(t, "f_clear")
    /\ UNCHANGED notTracerVars
    /\ is_pica_tracing' = FALSE
    /\ Goto(t, "f_lock")
    /\ UNCHANGED <<pica_trace, pica_trace_mutex, heap, freed, frame, crashed,
                   threads, hist, rets>>

\* 319: pica_trace_mutex.lock()
Fin_Lock(t) ==
    /\ Running(t, "f_lock")
    /\ UNCHANGED notTracerVars
    /\ pica_trace_mutex = NULL
    /\ pica_trace_mutex' = t
    /\ Goto(t, "f_move")
    /\ UNCHANGED <<pica_trace, is_pica_tracing, heap, freed, frame, crashed,
                   threads, hist, rets>>

\* a copy of the pointer that leaves pica_trace owning the buffer (mutant)
Fin_Move_Copy(t) ==
    /\ Running(t, "f_move")
    /\ UNCHANGED notTracerVars
    /\ frame' = [frame EXCEPT ![t].ret = pica_trace]
    /\ Goto(t, "f_unlock")
    /\ UNCHANGED <<pica_trace, pica_trace_mutex, is_pica_tracing, heap, freed,
                   crashed, threads, hist, rets>>

\* 320: std::unique_ptr<PicaTrace> ret(std::move(pica_trace)): ret takes the
\* buffer and pica_trace is left empty
Fin_Move(t) ==
    /\ Running(t, "f_move")
    /\ UNCHANGED notTracerVars
    /\ frame' = [frame EXCEPT ![t].ret = pica_trace]
    /\ pica_trace' = NULL
    /\ Goto(t, "f_unlock")
    /\ UNCHANGED <<pica_trace_mutex, is_pica_tracing, heap, freed, crashed,
                   threads, hist, rets>>

\* 321-322: pica_trace_mutex.unlock(); return std::move(ret)
Fin_Unlock(t) ==
    /\ Running(t, "f_unlock")
    /\ UNCHANGED notTracerVars
    /\ pica_trace_mutex' = NULL
    /\ rets' = Append(rets, Returned(frame[t].call, frame[t].ret))
    /\ Return(t)
    /\ UNCHANGED <<pica_trace, is_pica_tracing, heap, freed, crashed,
                   threads, hist>>

(***************************************************************************)
(* DumpTexture, lines 325-447: the copy loop of lines 388-428.  The        *)
(* function returns at line 328 before it reaches the loop; the loop is    *)
(* modelled as written, for a texture of 3 bytes per texel.                *)
(***************************************************************************)
\* the largest texture side, in tiles of 8 texels
MaxTiles == 2

\* 417, 418
block_width == 8
block_height == 8

\* DumpTexture is not running
DumpOff ==
    /\ dump_pc = "off"
    /\ width = 0
    /\ height = 0
    /\ dump_x = 0
    /\ dump_y = 0
    /\ texel_index_within_tile = 0
    /\ buf = <<>>

\* a << n on int
ShiftLeft(a, n) == a * (2 ^ n)

\* a & b on non-negative int
RECURSIVE BitAnd(_, _)
BitAnd(a, b) ==
    IF a = 0 \/ b = 0 THEN 0
    ELSE (a % 2) * (b % 2) + 2 * BitAnd(a \div 2, b \div 2)

\* 409-413 without the shifts by block_size_index (mutant)
SubTileIndex_NoShift(x, y, block_size_index) ==
    LET sub_tile_width  == ShiftLeft(1, block_size_index)
        sub_tile_height == ShiftLeft(1, block_size_index)
    IN  BitAnd(x, sub_tile_width) + 2 * BitAnd(y, sub_tile_height)

\* 409-413: sub_tile_index of one block size
SubTileIndex(x, y, block_size_index) ==
    LET sub_tile_width  == ShiftLeft(1, block_size_index)
        sub_tile_height == ShiftLeft(1, block_size_index)
    IN  ShiftLeft(BitAnd(x, sub_tile_width), block_size_index)
          + 2 * ShiftLeft(BitAnd(y, sub_tile_height), block_size_index)

\* 407-415: the loop over block_size_index = 0, 1, 2
RECURSIVE TexelIndexLoop(_, _, _, _)
TexelIndexLoop(x, y, block_size_index, index) ==
    IF block_size_index < 3
    THEN TexelIndexLoop(x, y, block_size_index + 1,
                        index + SubTileIndex(x, y, block_size_index))
    ELSE index

TexelIndexWithinTile(x, y) == TexelIndexLoop(x, y, 0, 0)

\* 399-406: the layout the comment documents; TileLayout[y + 1][x + 1], the
\* row of y = 0 being the last line of the comment
TileLayout ==
    << << 0,  1,  4,  5, 16, 17, 20, 21>>,
       << 2,  3,  6,  7, 18, 19, 22, 23>>,
       << 8,  9, 12, 13, 24, 25, 28, 29>>,
       <<10, 11, 14, 15, 26, 27, 30, 31>>,
       <<32, 33, 36, 37, 48, 49, 52, 53>>,
       <<34, 35, 38, 39, 50, 51, 54, 55>>,
       <<40, 41, 44, 45, 56, 57, 60, 61>>,
       <<42, 43, 46, 47, 58, 59, 62, 63>> >>

\* 339
RowStride(w) == w * 3

\* 420-423 with the tile's column scaled by 3 only (mutant)
SourceOffset_NarrowTile(x, y, w) ==
    LET coarse_x == (x \div block_width) * block_width
        coarse_y == (y \div block_height) * block_height
    IN  coarse_x * 3 + coarse_y * RowStride(w) + TexelIndexWithinTile(x, y) * 3

\* 420-423: source_ptr - data
SourceOffset(x, y, w) ==
    LET coarse_x == (x \div block_width) * block_width
        coarse_y == (y \div block_height) * block_height
    IN  coarse_x * block_height * 3 + coarse_y * RowStride(w)
          + TexelIndexWithinTile(x, y) * 3

\* the call, with a texture whose sides are multiples of 8; line 387 allocates
\* buf, whose bytes are not yet written (-1)
DumpInit ==
    /\ dump_pc = "loop"
    /\ width \in {8 * k : k \in 1..MaxTiles}
    /\ height \in {8 * k : k \in 1..MaxTiles}
    /\ dump_x = 0
    /\ dump_y = 0
    /\ texel_index_within_tile = 0
    /\ buf = [i \in 0..(RowStride(width) * height - 1) |-> -1]

\* 389-427: one iteration of the loop over x
Dump_Texel ==
    /\ dump_pc = "loop"
    /\ dump_y < height
    /\ dump_x < width
    /\ texel_index_within_tile' = TexelIndexWithinTile(dump_x, dump_y)
    /\ LET source_ptr == SourceOffset(dump_x, dump_y, width)
           dst == 3 * dump_x + dump_y * RowStride(width)
       IN  buf' = [buf EXCEPT ![dst]     = source_ptr + 2,
                              ![dst + 1] = source_ptr + 1,
                              ![dst + 2] = source_ptr]
    /\ dump_x' = dump_x + 1
    /\ UNCHANGED <<dump_pc, width, height, dump_y>>
    /\ UNCHANGED <<tracerVars, tickVars, swizzleVars, transVars, geoVars>>

\* 388-389: the loop over x ends, ++y
Dump_Row ==
    /\ dump_pc = "loop"
    /\ dump_y < height
    /\ dump_x = width
    /\ dump_x' = 0
    /\ dump_y' = dump_y + 1
    /\ UNCHANGED <<dump_pc, width, height, texel_index_within_tile, buf>>
    /\ UNCHANGED <<tracerVars, tickVars, swizzleVars, transVars, geoVars>>

\* 388, 430-441: the loop over y ends and buf is written out
Dump_End ==
    /\ dump_pc = "loop"
    /\ dump_y = height
    /\ dump_pc' = "done"
    /\ UNCHANGED <<width, height, dump_x, dump_y, texel_index_within_tile, buf>>
    /\ UNCHANGED <<tracerVars, tickVars, swizzleVars, transVars, geoVars>>

(***************************************************************************)
(* CachedSurfaceView::MarkAsModified, vk_texture_cache.h:184-186.          *)
(* SurfaceBase::MarkAsModified, which it calls, is declared in             *)
(* video_core/texture_cache/surface_base.h and is modelled from the        *)
(* specification (sections 4.2 and 8).                                     *)
(***************************************************************************)
\* Surfaces, Views, the ticks passed and the calls made in one behaviour
NSurfaces == 2
NViews == 3
MaxTick == 3
MaxMarks == 3

Surfaces == 1..NSurfaces
Views == 1..NViews

\* line 204: the Surface a View was constructed over; Views 1 and NSurfaces + 1
\* are Views of Surface 1
ViewSurface(v) == ((v - 1) % NSurfaces) + 1

TickInit ==
    /\ modification_tick = [s \in Surfaces |-> 0]
    /\ marks = <<>>

\* SurfaceBase::MarkAsModified(is_modified, tick): the recorded tick never
\* decreases
SurfaceBase_MarkAsModified(s, is_modified, tick) ==
    modification_tick' = [modification_tick EXCEPT ![s] = IF tick > @ THEN tick ELSE @]

\* 184-186 with the forward to the Surface left out (mutant)
CachedSurfaceView_MarkAsModified_NoForward(v, tick) ==
    /\ Len(marks) < MaxMarks
    /\ marks' = Append(marks, <<v, tick>>)
    /\ UNCHANGED modification_tick
    /\ UNCHANGED <<tracerVars, dumpVars, swizzleVars, transVars, geoVars>>

\* 184-186: surface.MarkAsModified(true, tick)
CachedSurfaceView_MarkAsModified(v, tick) ==
    /\ Len(marks) < MaxMarks
    /\ marks' = Append(marks, <<v, tick>>)
    /\ SurfaceBase_MarkAsModified(ViewSurface(v), TRUE, tick)
    /\ UNCHANGED <<tracerVars, dumpVars, swizzleVars, transVars, geoVars>>

(***************************************************************************)
(* CachedSurfaceView::EncodeSwizzle and GetHandle,                         *)
(* vk_texture_cache.h:132-144, 189-195.  The body of the four-argument     *)
(* GetHandle is in vk_texture_cache.cpp and the values of                  *)
(* Tegra::Texture::SwizzleSource in video_core/textures/texture.h; both    *)
(* are modelled from the specification (section 4.3).                      *)
(***************************************************************************)
\* sub-objects one View may cache in one behaviour
MaxCached == 3

\* Tegra::Texture::SwizzleSource
SwizzleSource_R == 2
SwizzleSource_G == 3
SwizzleSource_B == 4
SwizzleSource_A == 5

\* the sources GetHandle(x, y, z, w) is called with: a selector and the largest
\* value of 8 bits
SwizzleInputs == {SwizzleSource_R, 255}

\* a u32 is the pair <<high 16 bits, low 16 bits>>
\* static_cast<u32>(n), for 0 <= n < 2^31
U32(n) == <<n \div 65536, n % 65536>>

\* w << n on u32, 0 <= n < 32: the bits shifted past bit 31 are lost
Shl32(w, n) ==
    IF n >= 16
    THEN <<(w[2] * (2 ^ (n - 16))) % 65536, 0>>
    ELSE <<(w[1] * (2 ^ n) + (w[2] * (2 ^ n)) \div 65536) % 65536,
           (w[2] * (2 ^ n)) % 65536>>

\* a | b on non-negative int
RECURSIVE BitOr(_, _)
BitOr(a, b) ==
    IF a = 0 THEN b
    ELSE IF b = 0 THEN a
    ELSE (IF a % 2 = 1 \/ b % 2 = 1 THEN 1 ELSE 0) + 2 * BitOr(a \div 2, b \div 2)

\* a | b on u32
Or32(a, b) == <<BitOr(a[1], b[1]), BitOr(a[2], b[2])>>

\* 193-194 with y_source shifted by 8 (mutant)
EncodeSwizzle_ShiftY8(x_source, y_source, z_source, w_source) ==
    Or32(Or32(Or32(Shl32(U32(x_source), 24), Shl32(U32(y_source), 8)),
              Shl32(U32(z_source), 8)),
         U32(w_source))

\* 189-195
EncodeSwizzle(x_source, y_source, z_source, w_source) ==
    Or32(Or32(Or32(Shl32(U32(x_source), 24), Shl32(U32(y_source), 16)),
              Shl32(U32(z_source), 8)),
         U32(w_source))

\* a View before its first GetHandle; a sub-object is identified by the
\* component mapping it was created with, <<>> being the null handle
SwizzleInit ==
    /\ view_cache = {}
    /\ last_image_view = <<>>
    /\ last_swizzle = U32(0)
    /\ handle_call = [overload |-> "none", sources |-> <<>>]

\* the cached sub-objects of a key
Cached(key) == {e[2] : e \in {c \in view_cache : c[1] = key}}

\* 132-135: looks the key up in view_cache; on a miss creates the sub-object
\* of the four sources and inserts it; returns the sub-object
GetHandleSwizzled(overload, x_source, y_source, z_source, w_source) ==
    LET swizzle == EncodeSwizzle(x_source, y_source, z_source, w_source)
        created == <<x_source, y_source, z_source, w_source>>
    IN  /\ Cached(swizzle) # {} \/ Cardinality(view_cache) < MaxCached
        /\ last_swizzle' = swizzle
        /\ IF Cached(swizzle) # {}
           THEN /\ last_image_view' = CHOOSE view \in Cached(swizzle) : TRUE
                /\ UNCHANGED view_cache
           ELSE /\ view_cache' = view_cache \cup {<<swizzle, created>>}
                /\ last_image_view' = created
        /\ handle_call' = [overload |-> overload, sources |-> created]
        /\ UNCHANGED <<tracerVars, dumpVars, tickVars, transVars, geoVars>>

\* 132-135, called by the user of the View
GetHandle4(x_source, y_source, z_source, w_source) ==
    /\ GetHandleSwizzled("GetHandle(x, y, z, w)", x_source, y_source, z_source, w_source)

\* 141-144
GetHandle0 ==
    /\ GetHandleSwizzled("GetHandle()", SwizzleSource_R, SwizzleSource_G,
                         SwizzleSource_B, SwizzleSource_A)

(***************************************************************************)
(* CachedSurface::FullTransition, CachedSurface::Transition and            *)
(* CachedSurfaceView::Transition, vk_texture_cache.h:63-74, 178-182.       *)
(* VKImage::Transition, which they call, is declared in                    *)
(* video_core/renderer_vulkan/vk_image.h, and SurfaceParams in             *)
(* video_core/texture_cache/surface_params.h; both are modelled from the   *)
(* specification (sections 3 and 4.2).                                     *)
(***************************************************************************)
\* array layers and mip levels of the Surface, and the transitions asked in
\* one behaviour
MaxLayers == 2
MaxLevels == 2
MaxTransitions == 2

\* the values callers pass as vk::PipelineStageFlags, vk::AccessFlags and
\* vk::ImageLayout; the three sets are equal, so that a value reaching the
\* parameter of another meaning shows
StageMasks == {1, 2}
AccessMasks == {1, 2}
Layouts == {1, 2}

\* the (base, count) ranges inside [0, n)
Ranges(n) == {r \in (0..(n - 1)) \X (1..n) : r[1] + r[2] <= n}

\* SurfaceParams::GetNumLayers(): the array-layer count
SurfaceParams_GetNumLayers(p) == p.num_layers

\* a Surface of at most L layers and M levels and a View over one of its
\* subresource ranges (section 3: a View's range lies inside the Surface's);
\* no transition has been asked yet
TransInit(L, M) ==
    /\ params \in [num_layers : 1..L, num_levels : 1..M]
    /\ view_range \in {[base_layer |-> a[1], num_layers |-> a[2],
                  base_level |-> e[1], num_levels |-> e[2]] :
                    a \in Ranges(params.num_layers), e \in Ranges(params.num_levels)}
    /\ image_barriers = <<>>
    /\ subresource_state =
          [sr \in (0..(params.num_layers - 1)) \X (0..(params.num_levels - 1)) |->
              <<0, 0, 0>>]
    /\ transition_calls = <<>>

\* static_cast<u32>(n) of a non-negative n
CastU32(n) == ((n \div 65536) % 65536) * 65536 + (n % 65536)

\* VKImage::Transition: the call is recorded, and the subresources of the
\* range are from now on in the state asked for
VKImage_Transition(base_layer, num_layers, base_level, num_levels, new_stage_mask, new_access, new_layout) ==
    /\ image_barriers' =
          Append(image_barriers,
                 [base_layer |-> base_layer, num_layers |-> num_layers,
                  base_level |-> base_level, num_levels |-> num_levels,
                  stage |-> new_stage_mask, access |-> new_access,
                  layout |-> new_layout])
    /\ subresource_state' =
          [sr \in DOMAIN subresource_state |->
              IF /\ sr[1] >= base_layer /\ sr[1] < base_layer + num_layers
                 /\ sr[2] >= base_level /\ sr[2] < base_level + num_levels
              THEN <<new_stage_mask, new_access, new_layout>>
              ELSE subresource_state[sr]]

\* 69-74: image->Transition(...) with the seven arguments in the same order
CachedSurface_Transition(base_layer, num_layers, base_level, num_levels, new_stage_mask, new_access, new_layout) ==
    VKImage_Transition(base_layer, num_layers, base_level, num_levels,
                       new_stage_mask, new_access, new_layout)

\* 63-67
CachedSurface_FullTransition(new_stage_mask, new_access, new_layout) ==
    /\ Len(transition_calls) < MaxTransitions
    /\ transition_calls' =
          Append(transition_calls,
                 [op |-> "FullTransition", new_stage_mask |-> new_stage_mask,
                  new_access |-> new_access, new_layout |-> new_layout])
    /\ VKImage_Transition(0, CastU32(SurfaceParams_GetNumLayers(params)), 0,
                          params.num_levels, new_stage_mask, new_access, new_layout)
    /\ UNCHANGED <<params, view_range>>
    /\ UNCHANGED <<tracerVars, dumpVars, tickVars, swizzleVars, geoVars>>

\* 178-182 with the View's three arguments handed on in the order the View
\* takes them (mutant)
CachedSurfaceView_Transition_ArgOrder(new_layout, new_stage_mask, new_access) ==
    /\ Len(transition_calls) < MaxTransitions
    /\ transition_calls' =
          Append(transition_calls,
                 [op |-> "View::Transition", new_stage_mask |-> new_stage_mask,
                  new_access |-> new_access, new_layout |-> new_layout])
    /\ CachedSurface_Transition(view_range.base_layer, view_range.num_layers, view_range.base_level,
                                view_range.num_levels, new_layout, new_stage_mask,
                                new_access)
    /\ UNCHANGED <<params, view_range>>
    /\ UNCHANGED <<tracerVars, dumpVars, tickVars, swizzleVars, geoVars>>

\* 178-182: surface.Transition(base_layer, num_layers, base_level, num_levels,
\* new_stage_mask, new_access, new_layout)
CachedSurfaceView_Transition(new_layout, new_stage_mask, new_access) ==
    /\ Len(transition_calls) < MaxTransitions
    /\ transition_calls' =
          Append(transition_calls,
                 [op |-> "View::Transition", new_stage_mask |-> new_stage_mask,
                  new_access |-> new_access, new_layout |-> new_layout])
    /\ CachedSurface_Transition(view_range.base_layer, view_range.num_layers, view_range.base_level,
                                view_range.num_levels, new_stage_mask, new_access,
                                new_layout)
    /\ UNCHANGED <<params, view_range>>
    /\ UNCHANGED <<tracerVars, dumpVars, tickVars, swizzleVars, geoVars>>

(***************************************************************************)
(* GeometryDumper::AddVertex, debug_utils.cpp:25-42.                       *)
(***************************************************************************)
\* AddVertex calls made in one behaviour
MaxVertices == 6

\* the positions AddVertex is called with (std::array<float,3>)
Positions == {<<0, 0, 0>>, <<1, 2, 3>>}

\* the values of TriangleTopology AddVertex is called with: the two of lines
\* 31 and 32, and one that takes the default branch of the switch
Topologies == {"List", "ListIndexed", "other"}

\* a GeometryDumper before its first AddVertex
GeoInit ==
    /\ vertices = <<>>
    /\ faces = <<>>
    /\ exited = FALSE
    /\ topologies = <<>>

\* 25-42 with num_vertices read before the push_back of line 26 (mutant)
GeometryDumper_AddVertex_SizeBeforePush(pos, topology) ==
    /\ ~exited
    /\ Len(vertices) < MaxVertices
    /\ topologies' = Append(topologies, topology)
    /\ LET num_vertices == Len(vertices)
       IN  /\ vertices' = Append(vertices, <<pos[1], pos[2], pos[3]>>)
           /\ IF topology \in {"List", "ListIndexed"}
              THEN /\ faces' = IF 0 = num_vertices % 3
                               THEN Append(faces, <<num_vertices - 3, num_vertices - 2,
                                                    num_vertices - 1>>)
                               ELSE faces
                   /\ UNCHANGED exited
              ELSE /\ exited' = TRUE
                   /\ UNCHANGED faces
    /\ UNCHANGED <<tracerVars, dumpVars, tickVars, swizzleVars, transVars>>

\* 25-42: push_back of the vertex; for List and ListIndexed a face of the last
\* three vertices whenever their number is a multiple of 3; for any other
\* topology ERROR_LOG and exit(0)
GeometryDumper_AddVertex(pos, topology) ==
    /\ ~exited
    /\ Len(vertices) < MaxVertices
    /\ topologies' = Append(topologies, topology)
    /\ LET pushed == Append(vertices, <<pos[1], pos[2], pos[3]>>)
           num_vertices == Len(pushed)
       IN  /\ vertices' = pushed
           /\ IF topology \in {"List", "ListIndexed"}
              THEN /\ faces' = IF 0 = num_vertices % 3
                               THEN Append(faces, <<num_vertices - 3, num_vertices - 2,
                                                    num_vertices - 1>>)
                               ELSE faces
                   /\ UNCHANGED exited
              ELSE /\ exited' = TRUE
                   /\ UNCHANGED faces
    /\ UNCHANGED <<tracerVars, dumpVars, tickVars, swizzleVars, transVars>>

(***************************************************************************)
(* Specifications of the tracer.  Statements of different threads          *)
(* interleave one at a time.  The flag is a plain int that lines 277, 297, *)
(* 302 and 310 read and line 316 writes without holding the lock.  Such a  *)
(* racing read returns the value before or after the racing write; each    *)
(* access is one step, and the two orders of the steps give both values.   *)
(***************************************************************************)
TracerNext ==
    \E t \in Threads :
        \/ StartPicaTracing(t)
        \/ Start_Lock(t)
        \/ Start_New(t)
        \/ Start_Set(t)
        \/ Start_Unlock(t)
        \/ \E w \in RegWrites : OnPicaRegWrite(t, w[1], w[2])
        \/ Reg_Lock(t)
        \/ Reg_Recheck(t)
        \/ Reg_Push(t)
        \/ Reg_Unlock(t)
        \/ FinishPicaTracing(t)
        \/ Fin_Clear(t)
        \/ Fin_Lock(t)
        \/ Fin_Move(t)
        \/ Fin_Unlock(t)

Init == TracerInit(Threads) /\ DumpOff /\ TickInit /\ SwizzleInit /\ TransInit(1, 1) /\ GeoInit
Next == TracerNext
\* any number of threads call the tracer
Spec == Init /\ [][Next]_vars

InitSeq == TracerInit({1}) /\ DumpOff /\ TickInit /\ SwizzleInit /\ TransInit(1, 1) /\ GeoInit
NextSeq == TracerNext
\* one thread calls the tracer
SpecSeq == InitSeq /\ [][NextSeq]_vars

InitDump == TracerInit({}) /\ DumpInit /\ TickInit /\ SwizzleInit /\ TransInit(1, 1) /\ GeoInit
NextDump == Dump_Texel \/ Dump_Row \/ Dump_End
\* the copy loop of DumpTexture on every tile-aligned texture size
SpecDump == InitDump /\ [][NextDump]_vars

InitTick == TracerInit({}) /\ DumpOff /\ TickInit /\ SwizzleInit /\ TransInit(1, 1) /\ GeoInit
NextTick == \E v \in Views, tick \in 1..MaxTick : CachedSurfaceView_MarkAsModified(v, tick)
\* writers marking Surfaces as modified through their Views
SpecTick == InitTick /\ [][NextTick]_vars

InitSwizzle == TracerInit({}) /\ DumpOff /\ TickInit /\ SwizzleInit /\ TransInit(1, 1) /\ GeoInit
NextSwizzle ==
    \/ \E x \in SwizzleInputs, y \in SwizzleInputs, z \in SwizzleInputs,
          w \in SwizzleInputs : GetHandle4(x, y, z, w)
    \/ GetHandle0
\* the handles of one View
SpecSwizzle == InitSwizzle /\ [][NextSwizzle]_vars

InitTransition ==
    TracerInit({}) /\ DumpOff /\ TickInit /\ SwizzleInit
        /\ TransInit(MaxLayers, MaxLevels) /\ GeoInit
NextTransition ==
    \/ \E l \in Layouts, s \in StageMasks, a \in AccessMasks :
          CachedSurfaceView_Transition(l, s, a)
    \/ \E s \in StageMasks, a \in AccessMasks, l \in Layouts :
          CachedSurface_FullTransition(s, a, l)
\* transitions of one Surface, whole and through one of its Views
SpecTransition == InitTransition /\ [][NextTransition]_vars

InitGeometry ==
    TracerInit({}) /\ DumpOff /\ TickInit /\ SwizzleInit /\ TransInit(1, 1) /\ GeoInit
NextGeometry ==
    \E pos \in Positions, topology \in Topologies : GeometryDumper_AddVertex(pos, topology)
\* the vertices added to one GeometryDumper
SpecGeometry == InitGeometry /\ [][NextGeometry]_vars

(***************************************************************************)
(* Properties of the tracer.                                               *)
(***************************************************************************)
\* the (id, value) pairs a buffer holds, in order
Writes(b) == [i \in 1..Len(heap[b]) |-> <<heap[b][i].id, heap[b][i].value>>]

\* the step begins a call of `op`
CallStep(op) ==
    /\ Len(hist') = Len(hist) + 1
    /\ hist'[Len(hist')].op = op

\* the tracer state shared by the threads
shared == <<pica_trace, pica_trace_mutex, is_pica_tracing, heap, freed, crashed>>

\* call j is a StartPicaTracing made in the non-tracing state, call k a
\* FinishPicaTracing, and every call between them an OnPicaRegWrite
StartWritesFinish(j, k) ==
    /\ j < k
    /\ hist[j].op = "start" /\ ~hist[j].active
    /\ hist[k].op = "finish"
    /\ \A i \in (j + 1)..(k - 1) : hist[i].op = "write"

\* the arguments of the calls between j and k, in call order
WritesBetween(j, k) == [i \in 1..(k - j - 1) |-> <<hist[j + i].id, hist[j + i].value>>]

\* C1: single-threaded, StartPicaTracing from the non-tracing state, then n
\* OnPicaRegWrite calls, then FinishPicaTracing: the returned trace holds exactly
\* the n writes, in call order.
C1_TraceIsTheWritesInOrder ==
    \A r \in 1..Len(rets) : \A j \in 1..Len(hist) :
        StartWritesFinish(j, rets[r].call) =>
            /\ rets[r].buf # NULL
            /\ Writes(rets[r].buf) = WritesBetween(j, rets[r].call)

\* a trace of three writes, not all alike, has been returned
C1_Witness ==
    \E r \in 1..Len(rets) : \E j \in 1..Len(hist) :
        /\ StartWritesFinish(j, rets[r].call)
        /\ rets[r].call - j - 1 = 3
        /\ hist[j + 1] # hist[j + 2]
        /\ rets[r].buf # NULL
        /\ Len(heap[rets[r].buf]) = 3

\* an OnPicaRegWrite call that reads the flag as false at line 297 returns at
\* once and changes nothing
C2_DroppedStep ==
    (CallStep("write") /\ ~is_pica_tracing) =>
        /\ UNCHANGED shared
        /\ UNCHANGED <<pc, frame, rets>>

\* no buffer holds a write of a call that began while tracing was inactive
C2_NoDroppedWriteRecorded ==
    \A b \in 1..Len(heap) : \A i \in 1..Len(heap[b]) : hist[heap[b][i].call].active

\* C2: an OnPicaRegWrite call made while tracing is inactive changes neither the
\* flag nor the buffer, and its write is in no trace, whatever the other
\* threads do.
C2_InactiveWriteIsNoOp == [][C2_DroppedStep]_vars /\ []C2_NoDroppedWriteRecorded

\* a write was dropped, and a later FinishPicaTracing returned a trace that
\* holds another write
C2_Witness ==
    \E k \in 1..Len(hist) : \E r \in 1..Len(rets) :
        /\ hist[k].op = "write" /\ ~hist[k].active
        /\ rets[r].call > k
        /\ rets[r].buf # NULL
        /\ Len(heap[rets[r].buf]) > 0

\* StartPicaTracing while tracing is active: nothing changes, nothing is returned
C3_StartMisuseStep ==
    (CallStep("start") /\ is_pica_tracing) =>
        /\ UNCHANGED shared
        /\ UNCHANGED <<pc, frame, rets>>

\* FinishPicaTracing while tracing is inactive: returns {} and nothing changes
C3_FinishMisuseStep ==
    (CallStep("finish") /\ ~is_pica_tracing) =>
        /\ UNCHANGED shared
        /\ UNCHANGED <<pc, frame>>
        /\ rets' = Append(rets, [call |-> Len(hist'), buf |-> NULL])

\* C3: a misuse call (StartPicaTracing while active, FinishPicaTracing while
\* inactive) is a no-op: flag and buffer stay as they are, and the finish
\* returns an empty result.
C3_MisuseIsNoOp == [][C3_StartMisuseStep /\ C3_FinishMisuseStep]_vars

\* both misuses have happened, and the running trace still holds its write
C3_Witness ==
    /\ \E k \in 1..Len(hist) : hist[k].op = "start" /\ hist[k].active
    /\ \E r \in 1..Len(rets) : ~hist[rets[r].call].active /\ rets[r].buf = NULL
    /\ is_pica_tracing
    /\ pica_trace # NULL
    /\ Len(heap[pica_trace]) > 0
    /\ \A t \in threads : pc[t] = "idle"

\* the FinishPicaTracing returns that handed out a buffer
BufferReturns == {r \in 1..Len(rets) : rets[r].buf # NULL}

\* the StartPicaTracing calls made so far
StartCalls == {k \in 1..Len(hist) : hist[k].op = "start"}

\* C4: FinishPicaTracing calls after one StartPicaTracing, in any interleaving:
\* at most one returns the buffer, the others return {}; and no buffer is ever
\* returned twice.
C4_AtMostOneFinishGetsTheBuffer ==
    /\ \A r1, r2 \in BufferReturns : rets[r1].buf = rets[r2].buf => r1 = r2
    /\ Cardinality(StartCalls) = 1 => Cardinality(BufferReturns) <= 1

\* two FinishPicaTracing calls both passed the check of line 310 after the one
\* StartPicaTracing; one got the buffer, the other {}
C4_Witness ==
    /\ Cardinality(StartCalls) = 1
    /\ \E r1, r2 \in 1..Len(rets) :
        /\ hist[rets[r1].call].active /\ hist[rets[r2].call].active
        /\ rets[r1].buf # NULL
        /\ rets[r2].buf = NULL

\* C5: every operation applies its side effect under the lock only if the
\* condition its unlocked flag read tested still holds: StartPicaTracing
\* installs a buffer only while tracing is inactive, OnPicaRegWrite appends only
\* while tracing is active, FinishPicaTracing (which clears the flag itself on
\* line 316) takes the buffer only while the trace it saw active is still
\* installed.
C5_EffectOnlyIfCheckStillHolds ==
    \A t \in threads :
        /\ pc[t] = "s_new" => ~is_pica_tracing
        /\ pc[t] = "o_push" => is_pica_tracing
        /\ pc[t] = "f_move" => pica_trace # NULL

\* C6: once FinishPicaTracing has returned a buffer, no step of any thread
\* changes its contents or deletes it.
C6_ReturnedBufferIsNotTouched ==
    [][\A r \in BufferReturns :
          /\ heap'[rets[r].buf] = heap[rets[r].buf]
          /\ rets[r].buf \notin freed']_vars

\* an OnPicaRegWrite call that began before the FinishPicaTracing call did has
\* appended after that call returned its buffer: the write went into a buffer
\* allocated later
C6_Witness ==
    \E r \in BufferReturns : \E b \in 1..Len(heap) : \E i \in 1..Len(heap[b]) :
        /\ b > rets[r].buf
        /\ heap[b][i].call < rets[r].call

\* C12: in every reachable state, whenever the lock is free and the flag is
\* true the trace buffer exists; so an OnPicaRegWrite that passed its re-check
\* under the lock appends to an existing buffer and never dereferences an
\* absent one.
C12_ActiveTraceHasABuffer ==
    /\ (pica_trace_mutex = NULL /\ is_pica_tracing) => pica_trace # NULL
    /\ \A t \in threads : pc[t] = "o_push" => pica_trace # NULL
    /\ ~crashed

(***************************************************************************)
(* Properties of the tiled addressing of DumpTexture.                      *)
(***************************************************************************)
\* bit i of n
Bit(n, i) == (n \div (2 ^ i)) % 2

\* the interleave of the low three bits of x and y
Interleave(x, y) ==
    Bit(x, 0) + 2 * Bit(y, 0) + 4 * Bit(x, 1) + 8 * Bit(y, 1)
        + 16 * Bit(x, 2) + 32 * Bit(y, 2)

\* the texel the last iteration of the loop over x copied
LastTexel == <<dump_x - 1, dump_y>>

\* C7: the texel index the three-level loop computes for (x, y) is the
\* interleave of the low three bits of x and y, depends on (x mod 8, y mod 8)
\* only, and is the entry of the layout table of the comment.
C7_TexelIndexIsTheInterleave ==
    (dump_pc = "loop" /\ dump_x > 0) =>
        LET x == LastTexel[1]
            y == LastTexel[2]
        IN  /\ texel_index_within_tile = Interleave(x, y)
            /\ texel_index_within_tile = TexelIndexWithinTile(x % 8, y % 8)
            /\ texel_index_within_tile = TileLayout[(y % 8) + 1][(x % 8) + 1]

\* the loop has computed index 47 (row 7, column 3 of the table) for texel
\* (11, 15), outside the first tile
C7_Witness ==
    /\ dump_pc = "loop"
    /\ LastTexel = <<11, 15>>
    /\ texel_index_within_tile = 47

\* the texels copied so far
Copied ==
    {p \in (0..(width - 1)) \X (0..(height - 1)) :
        p[2] < dump_y \/ (p[2] = dump_y /\ p[1] < dump_x)}

\* source_ptr - data of the iteration that copied texel p: the offset of the
\* byte line 426 stored
SourcePtr(p) == buf[3 * p[1] + p[2] * RowStride(width) + 2]

\* the texel whose bytes lie at `offset` of a tiled image of width w: tiles of
\* 64 texels, row by row, and the de-interleaved index inside the tile
Decode(offset, w) ==
    LET slot   == offset \div 3
        tile   == slot \div 64
        within == slot % 64
        tile_x == tile % (w \div 8)
        tile_y == tile \div (w \div 8)
    IN  <<8 * tile_x + Bit(within, 0) + 2 * Bit(within, 2) + 4 * Bit(within, 4),
          8 * tile_y + Bit(within, 1) + 2 * Bit(within, 3) + 4 * Bit(within, 5)>>

\* C8: on a W x H image of 3 bytes per texel, W and H multiples of 8, the map
\* from (x, y) to the source offset is injective, every offset is a multiple of
\* 3 in [0, W*H*3), decoding the offset of (x, y) gives (x, y), and once the
\* loop is done the offsets cover every texel slot.
C8_TiledAddressingIsInvertible ==
    dump_pc \in {"loop", "done"} =>
        /\ \A p \in Copied :
            /\ SourcePtr(p) % 3 = 0
            /\ SourcePtr(p) >= 0
            /\ SourcePtr(p) < width * height * 3
            /\ Decode(SourcePtr(p), width) = p
        /\ Cardinality({SourcePtr(p) : p \in Copied}) = Cardinality(Copied)
        /\ dump_pc = "done" =>
                {SourcePtr(p) \div 3 : p \in Copied} = 0..(width * height - 1)

\* a texture of two tiles by two tiles has been copied whole
C8_Witness ==
    /\ dump_pc = "done"
    /\ width = 16
    /\ height = 16
    /\ Cardinality(Copied) = 256
    /\ SourcePtr(<<8, 8>>) = 3 * 192

(***************************************************************************)
(* Properties of the Surface's modification tick.                          *)
(***************************************************************************)
\* the ticks passed to MarkAsModified through the Views of Surface s
TicksThrough(s) ==
    {marks[i][2] : i \in {j \in 1..Len(marks) : ViewSurface(marks[j][1]) = s}}

MaxOf(S) == CHOOSE m \in S : \A n \in S : n <= m

Byte(w, k) ==
    IF k >= 2 THEN (w[1] \div (256 ^ (k - 2))) % 256 ELSE (w[2] \div (256 ^ k)) % 256

\* the four bytes of a key, the highest first
KeyBytes(w) == <<Byte(w, 3), Byte(w, 2), Byte(w, 1), Byte(w, 0)>>

Key(q) == EncodeSwizzle(q[1], q[2], q[3], q[4])

\* the remaps asked of the View so far: those sub-objects were created for,
\* and the one of the last call
Asked ==
    {e[2] : e \in view_cache}
        \cup (IF handle_call.overload = "none" THEN {} ELSE {handle_call.sources})

\* C10: the key packs the four 8-bit sources, so two remaps have the same key
\* exactly when they are equal; the View returns the sub-object created for the
\* remap asked for; GetHandle() uses the key of (R, G, B, A).
C10_SwizzleKeyIsInjective ==
    /\ \A p, q \in Asked : (Key(p) = Key(q)) <=> (p = q)
    /\ handle_call.overload # "none" =>
        /\ last_image_view = handle_call.sources
        /\ KeyBytes(last_swizzle) = handle_call.sources
    /\ handle_call.overload = "GetHandle()" =>
        /\ handle_call.sources =
              <<SwizzleSource_R, SwizzleSource_G, SwizzleSource_B, SwizzleSource_A>>
        /\ last_swizzle = Key(handle_call.sources)

\* the View caches the sub-object of a remap and that of the remap with y and z
\* exchanged, and has just returned the second
C10_Witness ==
    /\ <<SwizzleSource_R, SwizzleSource_R, 255, 255>> \in {e[2] : e \in view_cache}
    /\ handle_call.sources = <<SwizzleSource_R, 255, SwizzleSource_R, 255>>
    /\ last_image_view = handle_call.sources

(***************************************************************************)
(* Properties of the transitions.                                          *)
(***************************************************************************)
\* the step makes call `op`, the last of transition_calls'
TransitionStep(op) ==
    /\ Len(transition_calls') = Len(transition_calls) + 1
    /\ transition_calls'[Len(transition_calls')].op = op

\* the step hands the image exactly one transition: that of layers
\* [layer, layer + layers) and levels [level, level + levels) to the state the
\* caller named; the subresources of the range are in that state afterwards
\* and every other one is as it was
OneTransitionOf(layer, layers, level, levels) ==
    LET c == transition_calls'[Len(transition_calls')]
    IN  /\ Len(image_barriers') = Len(image_barriers) + 1
        /\ SubSeq(image_barriers', 1, Len(image_barriers)) = image_barriers
        /\ image_barriers'[Len(image_barriers')] =
              [base_layer |-> layer, num_layers |-> layers,
               base_level |-> level, num_levels |-> levels,
               stage |-> c.new_stage_mask, access |-> c.new_access,
               layout |-> c.new_layout]
        /\ \A sr \in DOMAIN subresource_state :
              subresource_state'[sr] =
                  IF sr \in (layer..(layer + layers - 1)) \X (level..(level + levels - 1))
                  THEN <<c.new_stage_mask, c.new_access, c.new_layout>>
                  ELSE subresource_state[sr]

\* C11: a View's Transition(new_layout, new_stage_mask, new_access) is exactly
\* one transition of the Surface's image over exactly the View's range, with
\* the stage mask, access mask and layout the caller passed; no layer or level
\* outside the range changes; FullTransition transitions exactly layers
\* [0, GetNumLayers()) and levels [0, num_levels).
C11_ViewTransitionCoversItsRange ==
    [][/\ TransitionStep("View::Transition") =>
            OneTransitionOf(view_range.base_layer, view_range.num_layers,
                            view_range.base_level, view_range.num_levels)
       /\ TransitionStep("FullTransition") =>
            /\ OneTransitionOf(0, params.num_layers, 0, params.num_levels)
            /\ \A sr \in DOMAIN subresource_state :
                  subresource_state'[sr] =
                      <<transition_calls'[Len(transition_calls')].new_stage_mask,
                        transition_calls'[Len(transition_calls')].new_access,
                        transition_calls'[Len(transition_calls')].new_layout>>]_vars

\* after a FullTransition of a Surface of two layers and two levels, the View
\* of layer 1, level 0 was transitioned with a layout that differs from the
\* stage mask and a stage mask that differs from the access mask: that
\* subresource is in the new state, the others in that of the FullTransition
C11_Witness ==
    /\ params = [num_layers |-> 2, num_levels |-> 2]
    /\ view_range = [base_layer |-> 1, num_layers |-> 1, base_level |-> 0, num_levels |-> 1]
    /\ Len(transition_calls) = 2
    /\ transition_calls[1].op = "FullTransition"
    /\ transition_calls[2] =
          [op |-> "View::Transition", new_stage_mask |-> 1, new_access |-> 2,
           new_layout |-> 2]
    /\ Len(image_barriers) = 2
    /\ subresource_state[<<1, 0>>] = <<1, 2, 2>>
    /\ subresource_state[<<0, 0>>] = <<1, 1, 1>>
    /\ subresource_state[<<1, 1>>] = <<1, 1, 1>>
    /\ subresource_state[<<0, 1>>] = <<1, 1, 1>>

(***************************************************************************)
(* Properties of the GeometryDumper.                                       *)
(***************************************************************************)
\* every AddVertex call so far had topology List or ListIndexed
OnlyLists == \A i \in 1..Len(topologies) : topologies[i] \in {"List", "ListIndexed"}

\* after calls of List or ListIndexed only: floor(n / 3) faces, the k-th being
\* (3k, 3k+1, 3k+2), every index one of a vertex
C13_FacesOfLists ==
    OnlyLists =>
        /\ ~exited
        /\ Len(vertices) = Len(topologies)
        /\ Len(faces) = Len(vertices) \div 3
        /\ \A k \in 0..(Len(faces) - 1) : faces[k + 1] = <<3 * k, 3 * k + 1, 3 * k + 2>>
        /\ \A f \in 1..Len(faces) : \A i \in 1..3 :
              faces[f][i] >= 0 /\ faces[f][i] < Len(vertices)

\* a call of any other topology appends the vertex, adds no face and ends the
\* process
C13_OtherTopologyStep ==
    (/\ Len(topologies') = Len(topologies) + 1
     /\ topologies'[Len(topologies')] \notin {"List", "ListIndexed"}) =>
        /\ Len(vertices') = Len(vertices) + 1
        /\ SubSeq(vertices', 1, Len(vertices)) = vertices
        /\ vertices'[Len(vertices')] \in Positions
        /\ faces' = faces
        /\ ~exited /\ exited'

\* C13: after AddVertex calls of topology List or ListIndexed only, the number
\* of faces is floor(number of vertices / 3), face k (from 0) is
\* (3k, 3k+1, 3k+2) and every face index is that of a vertex; a call of any
\* other topology appends the vertex and ends the process without adding a
\* face.
C13_FacesAreTheVertexTriples == []C13_FacesOfLists /\ [][C13_OtherTopologyStep]_vars

\* six vertices were added, of both topologies, and made two faces
C13_Witness ==
    /\ OnlyLists
    /\ Len(vertices) = 6
    /\ faces = << <<0, 1, 2>>, <<3, 4, 5>> >>
    /\ \E i, j \in 1..Len(topologies) :
          topologies[i] = "List" /\ topologies[j] = "ListIndexed"

====
